---- MODULE Spec2Model ----
(***************************************************************************)
(* Model of src/demo.py, the image-chat Streamlit script for vLLM.         *)
(*                                                                         *)
(* Streamlit runs the whole script from top to bottom once per widget      *)
(* interaction.  st.session_state (messages, image_data_url, image_sent)   *)
(* survives between runs; the widgets' values (server_url, uploaded_file)  *)
(* are kept by the front end and handed to every run; the Reset button and *)
(* the chat input are triggers, true / non-empty only in the run their     *)
(* interaction started.  One run is one action, up to the streaming remote *)
(* call, whose outcomes (create fails, a chunk arrives, the stream ends or *)
(* breaks) are the remaining actions.                                      *)
(*                                                                         *)
(* Python strings are sequences of one-character strings, so that          *)
(* concatenation is \o.  None and "" are both the empty sequence where     *)
(* the script only tests truthiness.                                       *)
(***************************************************************************)
EXTENDS Integers, Sequences, FiniteSets, TLC

VARIABLES
    messages,        \* st.session_state.messages
    image_data_url,  \* st.session_state.image_data_url (None: <<>>)
    image_sent,      \* st.session_state.image_sent
    server_url,      \* value of the sidebar text input (src/demo.py:29)
    uploaded_file,   \* value of the file uploader (src/demo.py:80)
    reset_clicked,   \* what st.sidebar.button returned in the latest run
    user_prompt,     \* what st.chat_input returned in the latest run
    warning,         \* whether the latest run showed the upload-first warning
    pc,              \* "idle" between runs, "create" / "stream" inside the try block
    request,         \* messages= argument of the latest chat.completions.create
    assistant_resp,  \* the local assistant_resp
    chunks,          \* number of chunks read from the current response
    received         \* the chunks the current response has yielded, in order

vars == <<messages, image_data_url, image_sent, server_url, uploaded_file,
          reset_clicked, user_prompt, warning, pc, request, assistant_resp, chunks,
          received>>

\* ------------------------------------------------------------------ bounds
MaxTurns == 4      \* a Submit is taken only while its two turns fit in messages
MaxChunks == 2     \* chunks read from one response

\* ------------------------------------------------------------------ inputs
None == <<>>
NoPrompt == ""

NoFile == [name |-> "", type |-> <<>>, bytes |-> <<>>]

PngMime == <<"i","m","a","g","e","/","p","n","g">>
JpegMime == <<"i","m","a","g","e","/","j","p","e","g">>

\* Two files with the same type and bytes under different names, and a third
\* that differs.
FileA == [name |-> "a.png", type |-> PngMime, bytes |-> <<137, 80>>]
FileACopy == [name |-> "copy.png", type |-> PngMime, bytes |-> <<137, 80>>]
FileB == [name |-> "b.jpg", type |-> JpegMime, bytes |-> <<255>>]
Files == {FileA, FileACopy, FileB}

Texts == {"what is this?", "what color?"}

DefaultServerUrl == "http://localhost:8000/v1"
ServerUrls == {"", DefaultServerUrl}

\* delta.content of a chunk: a fragment, or nothing ("" or None)
Fragments == {<<"A", " ">>, <<"c","a","t",".">>}
Chunks == [has_delta : {TRUE}, content : Fragments \cup {<<>>}]
              \cup {[has_delta |-> FALSE, content |-> <<>>]}

\* str(e) of the exceptions the remote call raises
Errors == {<<"d","o","w","n">>}

\* ------------------------------------------------------- image -> data URL
B64Alphabet ==
    <<"A","B","C","D","E","F","G","H","I","J","K","L","M","N","O","P",
      "Q","R","S","T","U","V","W","X","Y","Z","a","b","c","d","e","f",
      "g","h","i","j","k","l","m","n","o","p","q","r","s","t","u","v",
      "w","x","y","z","0","1","2","3","4","5","6","7","8","9","+","/">>

B64Char(n) == B64Alphabet[n + 1]

\* base64.b64encode(...).decode(): three bytes give four characters, a last
\* group of one or two bytes is padded with "=".
RECURSIVE b64encode(_)
b64encode(bytes) ==
    IF Len(bytes) = 0 THEN <<>>
    ELSE IF Len(bytes) = 1 THEN
        <<B64Char(bytes[1] \div 4), B64Char((bytes[1] % 4) * 16), "=", "=">>
    ELSE IF Len(bytes) = 2 THEN
        <<B64Char(bytes[1] \div 4),
          B64Char((bytes[1] % 4) * 16 + bytes[2] \div 16),
          B64Char((bytes[2] % 16) * 4), "=">>
    ELSE
        <<B64Char(bytes[1] \div 4),
          B64Char((bytes[1] % 4) * 16 + bytes[2] \div 16),
          B64Char((bytes[2] % 16) * 4 + bytes[3] \div 64),
          B64Char(bytes[3] % 64)>>
        \o b64encode(SubSeq(bytes, 4, Len(bytes)))

\* f"data:{mime_type};base64,{encoded}"
image_to_data_url(file) ==
    <<"d","a","t","a",":">> \o file.type
        \o <<";","b","a","s","e","6","4",",">> \o b64encode(file.bytes)

\* ------------------------------------------------------------ session state
SessionState ==
    [messages |-> messages, image_data_url |-> image_data_url, image_sent |-> image_sent]

\* if not server_url: st.error(...); st.stop()
SidebarStops(url) == url = ""

\* Mutant of UploadHandling: the flag is not reset.
UploadHandling_KeepsFlag(ss, file) ==
    IF file # NoFile
    THEN [ss EXCEPT !.image_data_url = image_to_data_url(file)]
    ELSE ss

\* if uploaded_file: image_data_url = image_to_data_url(...); image_sent = False
UploadHandling(ss, file) ==
    IF file # NoFile
    THEN [ss EXCEPT !.image_data_url = image_to_data_url(file), !.image_sent = FALSE]
    ELSE ss

\* Mutant of ResetChat: the flag is not reset.
ResetChat_KeepsFlag(ss, clicked) ==
    IF clicked
    THEN [ss EXCEPT !.messages = <<>>]
    ELSE ss

\* if st.sidebar.button("Reset Chat"): messages.clear(); image_sent = False
ResetChat(ss, clicked) ==
    IF clicked
    THEN [ss EXCEPT !.messages = <<>>, !.image_sent = FALSE]
    ELSE ss

\* Mutant of MissingImage: the guard never stops the run.
MissingImage_Never(ss) == FALSE

\* Mutant of MissingImage: the second "not" is lost.
MissingImage_NotDropped(ss) == ss.image_data_url = None /\ Len(ss.messages) # 0

\* if not image_data_url and not messages: st.warning(...); st.stop()
MissingImage(ss) == ss.image_data_url = None /\ Len(ss.messages) = 0

ImagePart(url) == [type |-> "image_url", image_url |-> [url |-> url]]
TextPart(text) == [type |-> "text", text |-> text]

\* the condition under which the image goes into the user message
IncludeImage(ss) == ~ss.image_sent /\ ss.image_data_url # None

\* Mutant of UserMsgContent: the text is put before the image.
UserMsgContent_TextFirst(ss, prompt) ==
    IF IncludeImage(ss)
    THEN <<TextPart(prompt), ImagePart(ss.image_data_url)>>
    ELSE <<TextPart(prompt)>>

\* user_msg_content of both branches
UserMsgContent(ss, prompt) ==
    IF IncludeImage(ss)
    THEN <<ImagePart(ss.image_data_url), TextPart(prompt)>>
    ELSE <<TextPart(prompt)>>

\* Build user message and append it: the session state after line 126
BuildUserMessage(ss, prompt) ==
    [ss EXCEPT !.messages = Append(ss.messages,
                                   [role |-> "user", content |-> UserMsgContent(ss, prompt)]),
               !.image_sent = IF IncludeImage(ss) THEN TRUE ELSE ss.image_sent]

SystemPrompt ==
    "You are an AI assistant that can see images and answer questions about them."

\* Mutant of RequestMessages: the system turn is put after the history.
RequestMessages_SystemLast(msgs) ==
    msgs \o <<[role |-> "system", content |-> SystemPrompt]>>

\* messages=[{"role": "system", ...}, *st.session_state.messages]
RequestMessages(msgs) == <<[role |-> "system", content |-> SystemPrompt]>> \o msgs

\* Mutant of Accumulate: the fragment is put in front of the text so far.
Accumulate_Prepend(resp, chunk) ==
    IF chunk.has_delta /\ chunk.content # <<>> THEN chunk.content \o resp ELSE resp

\* if delta and delta.content: assistant_resp += delta.content
Accumulate(resp, chunk) ==
    IF chunk.has_delta /\ chunk.content # <<>> THEN resp \o chunk.content ELSE resp

\* f"(cross mark) Error: {e}"
ErrorText(e) == <<"X", " ", "E","r","r","o","r",":"," ">> \o e

AssistantMessage(resp) == [role |-> "assistant", content |-> resp]

\* ------------------------------------------------------------------ initial
\* The session after its first script run: defaults in the sidebar, nothing
\* uploaded, session state bootstrapped.
Init ==
    /\ messages = <<>>
    /\ image_data_url = None
    /\ image_sent = FALSE
    /\ server_url = DefaultServerUrl
    /\ uploaded_file = NoFile
    /\ reset_clicked = FALSE
    /\ user_prompt = NoPrompt
    /\ warning = FALSE
    /\ pc = "idle"
    /\ request = <<>>
    /\ assistant_resp = <<>>
    /\ chunks = 0
    /\ received = <<>>

\* ------------------------------------------------------------- a script run
\* One run of the script with the widget values url and file and the triggers
\* clicked and prompt, from the top to st.stop(), to the end of the script, or
\* to the remote call.
ScriptRun(url, file, clicked, prompt) ==
    /\ pc = "idle"
    /\ server_url' = url
    /\ chunks' = 0
    /\ received' = <<>>
    /\ IF SidebarStops(url)
       THEN \* stopped in the sidebar: nothing below line 50 runs.  The front
            \* end may drop the value of the uploader, which was not rendered.
            /\ uploaded_file' \in {file, NoFile}
            /\ reset_clicked' = FALSE
            /\ user_prompt' = NoPrompt
            /\ warning' = FALSE
            /\ request' = <<>>
            /\ assistant_resp' = <<>>
            /\ UNCHANGED <<messages, image_data_url, image_sent, pc>>
       ELSE LET s1 == UploadHandling(SessionState, file)
                s2 == ResetChat(s1, clicked)
                submitted == prompt # NoPrompt
                accepted == submitted /\ ~MissingImage(s2)
                s3 == IF accepted THEN BuildUserMessage(s2, prompt) ELSE s2
            IN  /\ uploaded_file' = file
                /\ reset_clicked' = clicked
                /\ user_prompt' = prompt
                /\ warning' = (submitted /\ MissingImage(s2))
                /\ messages' = s3.messages
                /\ image_data_url' = s3.image_data_url
                /\ image_sent' = s3.image_sent
                /\ assistant_resp' = <<>>
                /\ request' = IF accepted THEN RequestMessages(s3.messages) ELSE <<>>
                /\ pc' = IF accepted THEN "create" ELSE "idle"

\* The uploader, the Reset button and the chat input exist only when the
\* latest run got past the sidebar.
MainRendered == pc = "idle" /\ ~SidebarStops(server_url)

\* ------------------------------------------------------------------- events
\* The user picks a file in the uploader.
Upload(f) ==
    /\ MainRendered
    /\ ScriptRun(server_url, f, FALSE, NoPrompt)

\* The user removes the file from the uploader.
RemoveFile ==
    /\ MainRendered
    /\ uploaded_file # NoFile
    /\ ScriptRun(server_url, NoFile, FALSE, NoPrompt)

\* The user clicks Reset Chat.
Reset ==
    /\ MainRendered
    /\ ScriptRun(server_url, uploaded_file, TRUE, NoPrompt)

\* The user sends text in the chat input.
Submit(text) ==
    /\ MainRendered
    /\ Len(messages) + 2 <= MaxTurns
    /\ ScriptRun(server_url, uploaded_file, FALSE, text)

\* The user edits a sidebar field: the server URL, or (url unchanged) the
\* API key or the model name.
EditSidebar(url) ==
    /\ pc = "idle"
    /\ ScriptRun(url, uploaded_file, FALSE, NoPrompt)

\* ---------------------------------------------------------- the remote call
\* Mutant of ExceptHandler: the run ends in the handler, nothing is appended.
ExceptHandler_NoAppend(e) ==
    /\ assistant_resp' = ErrorText(e)
    /\ pc' = "idle"
    /\ UNCHANGED <<messages, image_data_url, image_sent, server_url, uploaded_file,
                   reset_clicked, user_prompt, warning, request, chunks, received>>

\* Mutant of ExceptHandler: the error text is added to the partial reply.
ExceptHandler_KeepsPartial(e) ==
    /\ assistant_resp' = assistant_resp \o ErrorText(e)
    /\ messages' = Append(messages, AssistantMessage(assistant_resp \o ErrorText(e)))
    /\ pc' = "idle"
    /\ UNCHANGED <<image_data_url, image_sent, server_url, uploaded_file,
                   reset_clicked, user_prompt, warning, request, chunks, received>>

\* Mutant of ExceptHandler: the failed exchange is rolled back.
ExceptHandler_RollsBack(e) ==
    /\ assistant_resp' = ErrorText(e)
    /\ messages' = SubSeq(messages, 1, Len(messages) - 1)
    /\ pc' = "idle"
    /\ UNCHANGED <<image_data_url, image_sent, server_url, uploaded_file,
                   reset_clicked, user_prompt, warning, request, chunks, received>>

\* except Exception as e: assistant_resp = error text; then line 160
ExceptHandler(e) ==
    /\ assistant_resp' = ErrorText(e)
    /\ messages' = Append(messages, AssistantMessage(ErrorText(e)))
    /\ pc' = "idle"
    /\ UNCHANGED <<image_data_url, image_sent, server_url, uploaded_file,
                   reset_clicked, user_prompt, warning, request, chunks, received>>

\* client.chat.completions.create raises
CreateFails(e) ==
    /\ pc = "create"
    /\ ExceptHandler(e)

\* client.chat.completions.create returns the response stream
CreateReturns ==
    /\ pc = "create"
    /\ pc' = "stream"
    /\ UNCHANGED <<messages, image_data_url, image_sent, server_url, uploaded_file,
                   reset_clicked, user_prompt, warning, request, assistant_resp, chunks,
                   received>>

\* one iteration of: for chunk in response
ReadChunk(chunk) ==
    /\ pc = "stream"
    /\ chunks < MaxChunks
    /\ assistant_resp' = Accumulate(assistant_resp, chunk)
    /\ chunks' = chunks + 1
    /\ received' = Append(received, chunk)
    /\ UNCHANGED <<messages, image_data_url, image_sent, server_url, uploaded_file,
                   reset_clicked, user_prompt, warning, pc, request>>

\* the iteration raises: the connection breaks, or a chunk is malformed
StreamFails(e) ==
    /\ pc = "stream"
    /\ ExceptHandler(e)

\* the response is exhausted: the loop ends, then line 160
StreamEnds ==
    /\ pc = "stream"
    /\ messages' = Append(messages, AssistantMessage(assistant_resp))
    /\ pc' = "idle"
    /\ UNCHANGED <<image_data_url, image_sent, server_url, uploaded_file,
                   reset_clicked, user_prompt, warning, request, assistant_resp, chunks,
                   received>>

Next ==
    \/ \E f \in Files : Upload(f)
    \/ RemoveFile
    \/ Reset
    \/ \E text \in Texts : Submit(text)
    \/ \E url \in ServerUrls : EditSidebar(url)
    \/ \E e \in Errors : CreateFails(e)
    \/ CreateReturns
    \/ \E chunk \in Chunks : ReadChunk(chunk)
    \/ \E e \in Errors : StreamFails(e)
    \/ StreamEnds

Spec == Init /\ [][Next]_vars

\* ------------------------------------------------------------------ claims
UserTurn(content) == [role |-> "user", content |-> content]

\* positions <<turn, part>> of the image parts of history
ImageRefs ==
    UNION {{<<i, j>> : j \in {k \in DOMAIN messages[i].content :
                                 messages[i].content[k].type = "image_url"}} :
           i \in {n \in DOMAIN messages : messages[n].role = "user"}}

HasImagePart(msg) == \E k \in DOMAIN msg.content : msg.content[k].type = "image_url"

Last(seq) == seq[Len(seq)]

\* an Upload of a file whose data URL differs from / equals the tracked one
DifferentUpload == \E f \in Files : Upload(f) /\ image_to_data_url(f) # image_data_url
SameUpload == \E f \in Files : Upload(f) /\ image_to_data_url(f) = image_data_url

\* C1: history holds at most one image part across all of its turns, in every
\* reachable state.
C1_AtMostOneImage == Cardinality(ImageRefs) <= 1

\* C2: an Upload whose data URL differs from the tracked one leaves history
\* empty, the image tracked and image_sent = False.
C2_NewUploadStartsFresh ==
    [][DifferentUpload =>
         /\ Len(messages') = 0
         /\ image_data_url' # None
         /\ image_sent' = FALSE]_vars

\* C3: an Upload whose data URL equals the tracked one changes neither history
\* nor the tracked image nor image_sent.
C3_SameUploadIsNoOp ==
    [][SameUpload => UNCHANGED <<messages, image_data_url, image_sent>>]_vars

\* C4: every image part of history carries the data URL of the tracked image.
C4_NoStaleImage ==
    \A r \in ImageRefs : messages[r[1]].content[r[2]].image_url.url = image_data_url

\* C5: a Submit(text) with an image tracked and image_sent = False appends the
\* user turn [image part of the tracked URL, text part of text] and leaves
\* image_sent = True.
C5_PendingSubmitAttachesImage ==
    [][\A text \in Texts :
         (Submit(text) /\ image_data_url # None /\ ~image_sent) =>
            /\ messages' = Append(messages,
                   UserTurn(<<ImagePart(image_data_url), TextPart(text)>>))
            /\ image_data_url' = image_data_url
            /\ image_sent' = TRUE]_vars

\* C5 witness: a Submit has just appended an image-and-text turn.
C5_Witness ==
    /\ pc = "create"
    /\ user_prompt # NoPrompt
    /\ image_sent
    /\ Last(messages) = UserTurn(<<ImagePart(image_data_url), TextPart(user_prompt)>>)

\* C6: a Submit(text) with image_sent = True appends the user turn [text part]
\* alone and leaves image_sent = True.
C6_DeliveredSubmitTextOnly ==
    [][\A text \in Texts :
         (Submit(text) /\ image_sent) =>
            /\ messages' = Append(messages, UserTurn(<<TextPart(text)>>))
            /\ image_sent' = TRUE]_vars

\* C7: in Upload(A), Submit(t1), Submit(t2) with the file left selected and
\* nothing in between, the user turn of the second Submit has no image part,
\* and history has 4 turns when the second remote call has ended.  The state
\* before the second Submit is the one whose latest run was the first Submit
\* (user_prompt set) and whose history is that Submit's two turns.
C7_SecondSubmitTextOnly ==
    [][/\ (/\ \E text \in Texts : Submit(text)
           /\ user_prompt # NoPrompt
           /\ uploaded_file # NoFile
           /\ Len(messages) = 2)
          => ~HasImagePart(Last(messages'))
       /\ (pc # "idle" /\ pc' = "idle" /\ Len(messages) = 3)
          => Len(messages') = 4]_vars

\* C8: a Submit with no image tracked and empty history shows the warning,
\* appends nothing, issues no remote call, leaves the session state as it was
\* and leaves the page ready for the next event.
C8_MissingImageAborts ==
    [][\A text \in Texts :
         (Submit(text) /\ image_data_url = None /\ Len(messages) = 0) =>
            /\ warning'
            /\ Len(messages') = 0
            /\ request' = <<>>
            /\ UNCHANGED <<image_data_url, image_sent>>
            /\ MainRendered']_vars

\* C8 witness: the latest run was a Submit that was refused.
C8_Witness ==
    /\ pc = "idle"
    /\ user_prompt # NoPrompt
    /\ warning
    /\ Len(messages) = 0
    /\ image_data_url = None

\* C9: Reset clears history, keeps the tracked image and sets image_sent =
\* False; a Submit in the run right after a Reset, with an image tracked,
\* opens history with a user turn whose first part is the tracked image.
C9_ResetReattachesImage ==
    [][/\ Reset =>
            /\ Len(messages') = 0
            /\ image_sent' = FALSE
            /\ image_data_url' = image_data_url
       /\ \A text \in Texts :
            (Submit(text) /\ reset_clicked /\ image_data_url # None) =>
               /\ Len(messages') = 1
               /\ messages'[1] =
                     UserTurn(<<ImagePart(image_data_url), TextPart(text)>>)
               /\ image_sent' = TRUE]_vars

\* C9 witness: a Reset has just run with an image tracked whose file is no
\* longer in the uploader: history is empty and the image is owed again.
C9_Witness ==
    /\ pc = "idle"
    /\ reset_clicked
    /\ uploaded_file = NoFile
    /\ image_data_url # None
    /\ Len(messages) = 0
    /\ ~image_sent

\* C10: once image_sent = True it stays True over every step that is neither
\* a Reset nor an Upload of a differing data URL.
C10_DeliveredIsStable ==
    [][(image_sent /\ ~Reset /\ ~DifferentUpload) => image_sent']_vars

\* the error texts the handler can produce
ErrorTexts == {ErrorText(e) : e \in Errors}

InCall == pc \in {"create", "stream"}

\* C11: a Submit that passed the guard ends by appending exactly one assistant
\* turn after its user turn, holding the accumulated reply or an error text;
\* until then nothing is appended, and every failure of the remote call ends
\* the run with that append.
C11_OneAssistantTurnPerSubmit ==
    [][InCall =>
         IF pc' = "idle"
         THEN /\ Len(messages') = Len(messages) + 1
              /\ SubSeq(messages', 1, Len(messages)) = messages
              /\ Last(messages).role = "user"
              /\ Last(messages').role = "assistant"
              /\ \/ Last(messages').content = assistant_resp
                 \/ Last(messages').content \in ErrorTexts
         ELSE /\ InCall'
              /\ messages' = messages]_vars

\* C11 witness: a history of one failed and one successful exchange.
C11_Witness ==
    /\ pc = "idle"
    /\ Len(messages) = 4
    /\ messages[2].content \in ErrorTexts
    /\ messages[4].content = assistant_resp
    /\ assistant_resp # <<>>
    /\ assistant_resp \notin ErrorTexts

\* the concatenation, in order, of the non-empty fragments of a chunk sequence
RECURSIVE ConcatFragments(_)
ConcatFragments(cs) ==
    IF cs = <<>> THEN <<>>
    ELSE (IF Head(cs).has_delta THEN Head(cs).content ELSE <<>>)
             \o ConcatFragments(Tail(cs))

\* C12: when the stream fails after fragments were accumulated, the assistant
\* turn appended holds the error text alone, with none of the partial text.
C12_FailureDiscardsPartial ==
    [][\A e \in Errors :
         StreamFails(e) =>
            /\ Len(messages') = Len(messages) + 1
            /\ Last(messages') = AssistantMessage(ErrorText(e))]_vars

\* C12 witness: the stream failed after "A " had been accumulated and the
\* appended turn is the error text.
C12_Witness ==
    /\ pc = "idle"
    /\ ConcatFragments(received) # <<>>
    /\ Len(messages) > 0
    /\ Last(messages).role = "assistant"
    /\ Last(messages).content \in ErrorTexts

\* C13: when the stream ends without failure, the assistant turn appended is
\* the concatenation, in arrival order, of the non-empty fragments received;
\* chunks without a fragment add nothing.
C13_ReplyIsConcatenation ==
    [][/\ pc' = "stream" => assistant_resp' = ConcatFragments(received')
       /\ StreamEnds =>
            /\ Len(messages') = Len(messages) + 1
            /\ Last(messages') = AssistantMessage(ConcatFragments(received))]_vars

\* C13 witness: fragments "A " and "cat." have given the reply "A cat.".
C13_Witness ==
    /\ pc = "idle"
    /\ Len(received) = 2
    /\ received[1].content = <<"A", " ">>
    /\ received[2].content = <<"c", "a", "t", ".">>
    /\ Len(messages) = 2
    /\ messages[2] = AssistantMessage(<<"A", " ", "c", "a", "t", ".">>)

\* C14: while the remote call runs the user turn of this Submit is already the
\* last turn of history and part of the request, and the end of the call,
\* success or failure, removes nothing from history and leaves image_sent.
C14_UserTurnKeptAcrossCall ==
    [][/\ InCall' =>
            /\ Last(messages').role = "user"
            /\ \E k \in DOMAIN Last(messages').content :
                  Last(messages').content[k] = TextPart(user_prompt')
            /\ Last(request') = Last(messages')
       /\ (InCall /\ pc' = "idle") =>
            /\ Len(messages') >= Len(messages)
            /\ SubSeq(messages', 1, Len(messages)) = messages
            /\ image_sent' = image_sent
            /\ image_data_url' = image_data_url]_vars

\* C14 witness: the call of a Submit that delivered the image has failed, and
\* the user turn with the image is still in history, image_sent still True.
C14_Witness ==
    /\ pc = "idle"
    /\ Len(messages) = 2
    /\ messages[2].content \in ErrorTexts
    /\ messages[1] = UserTurn(<<ImagePart(image_data_url), TextPart(user_prompt)>>)
    /\ image_sent

\* C15: the request is the system turn followed by the whole history in order,
\* ending with the user turn just appended, and history holds no system turn.
C15_RequestIsSystemPlusHistory ==
    /\ \A i \in DOMAIN messages : messages[i].role # "system"
    /\ InCall =>
          /\ Len(request) = Len(messages) + 1
          /\ request[1].role = "system"
          /\ request[1].content =
                "You are an AI assistant that can see images and answer questions about them."
          /\ \A i \in DOMAIN messages : request[i + 1] = messages[i]
          /\ Last(request).role = "user"

\* C15 witness: the second Submit of a conversation sends the system turn and
\* three turns of history.
C15_Witness ==
    /\ pc = "create"
    /\ Len(request) = 4
    /\ Len(messages) = 3

\* C17: history is non-empty only with an image tracked; the upload-first
\* warning is shown only with no image tracked and empty history, and a
\* tracked image is never untracked, so the warning cannot come back after
\* the first Upload.
C17_HistoryImpliesImage ==
    /\ [](/\ Len(messages) > 0 => image_data_url # None
          /\ warning => (image_data_url = None /\ Len(messages) = 0))
    /\ [][image_data_url # None => image_data_url' # None]_vars

\* C17 witness: a conversation whose file was taken out of the uploader still
\* has its image tracked.
C17_Witness ==
    /\ pc = "idle"
    /\ Len(messages) > 0
    /\ uploaded_file = NoFile
    /\ image_data_url # None

\* C18: a non-empty history opens with a user turn whose first part is an
\* image part.
C18_FirstTurnCarriesImage ==
    Len(messages) > 0 =>
       /\ messages[1].role = "user"
       /\ messages[1].content[1].type = "image_url"

\* C18 witness: the first turn of a conversation started with no file in the
\* uploader carries the tracked image.
C18_Witness ==
    /\ pc = "create"
    /\ uploaded_file = NoFile
    /\ Len(messages) = 1
    /\ messages[1] = UserTurn(<<ImagePart(image_data_url), TextPart(user_prompt)>>)

\* C19: while image_sent = True an image is tracked and some user turn of
\* history has an image part with the tracked data URL.
C19_SentImpliesImageInHistory ==
    image_sent =>
       /\ image_data_url # None
       /\ \E r \in ImageRefs :
             messages[r[1]].content[r[2]].image_url.url = image_data_url

\* C19 witness: image_sent = True between runs, after two exchanges.
C19_Witness ==
    /\ pc = "idle"
    /\ image_sent
    /\ Len(messages) = 4

\* the characters of the texts an assistant turn is built from
Chars == UNION {{t[k] : k \in DOMAIN t} : t \in Fragments \cup ErrorTexts}

\* C20: between runs history has even length, during the remote call odd
\* length; its roles alternate user, assistant from the first turn; a user
\* turn is a list of parts with exactly one text part, an assistant turn is a
\* plain string.
C20_TurnsAlternate ==
    /\ pc = "idle" => Len(messages) % 2 = 0
    /\ InCall => Len(messages) % 2 = 1
    /\ \A i \in DOMAIN messages :
          /\ messages[i].role = (IF i % 2 = 1 THEN "user" ELSE "assistant")
          /\ IF messages[i].role = "user"
             THEN /\ \A k \in DOMAIN messages[i].content :
                        messages[i].content[k].type \in {"image_url", "text"}
                  /\ Cardinality({k \in DOMAIN messages[i].content :
                                     messages[i].content[k].type = "text"}) = 1
             ELSE \A k \in DOMAIN messages[i].content :
                        messages[i].content[k] \in Chars

\* C20 witness: the second remote call of a conversation is streaming.
C20_Witness ==
    /\ pc = "stream"
    /\ Len(messages) = 3
    /\ chunks > 0

====
